---- MODULE Spec2Model ----
(***************************************************************************)
(* Model of the TUF client of src/client.rs: Client::update_local,         *)
(* Client::update_remote and the four stages update_root,                  *)
(* update_timestamp, update_snapshot and update_targets, together with     *)
(* the collaborators they drive (the Tuf trust store, the Repository       *)
(* fetch, crypto::hash_preference, DataInterchange::deserialize).          *)
(*                                                                         *)
(* The client is synchronous and single threaded, so one call of an entry  *)
(* point is one action.  Each call leaves a record of what it did in the   *)
(* variable `call`: the trusted state it started from, the result of each  *)
(* stage it ran, its own result, and the sequence of fetches and adoption  *)
(* attempts it issued.  `builder` is the ConfigBuilder the Config was      *)
(* finished from.                                                          *)
(***************************************************************************)
EXTENDS Integers, Sequences, FiniteSets, TLC

VARIABLES tuf, local, remote, config, call, builder

vars == <<tuf, local, remote, config, call, builder>>

(***************************************************************************)
(* Bounds of the model.                                                    *)
(***************************************************************************)
\* highest root version a repository offers in the root-chain specification
MaxVersion == 4
\* highest root version a repository offers in the stage specifications
MaxStageRoot == 2
\* highest timestamp / snapshot / targets version a repository offers
MaxMetaVersion == 2

(***************************************************************************)
(* Option<T> is a set with at most one element.                            *)
(***************************************************************************)
None == {}

Some(x) == {x}

Unwrap(o) == CHOOSE x \in o : TRUE

(***************************************************************************)
(* Result<bool>.                                                           *)
(***************************************************************************)
Ok(b) == [ok |-> TRUE, val |-> b, err |-> "", role |-> ""]

Err(kind, role) == [ok |-> FALSE, val |-> FALSE, err |-> kind, role |-> role]

(***************************************************************************)
(* Metadata.  A signed document carries its role, its declared version,    *)
(* whether its payload decodes, whether its signatures verify against the  *)
(* keys the trusted root authorises, its byte length, its content (which   *)
(* determines its digests) and, for timestamp and snapshot, the            *)
(* descriptors of the documents below it keyed by metadata path.           *)
(***************************************************************************)
Roles == {"root", "timestamp", "snapshot", "targets"}

NoMeta == [p \in {} |-> {}]

Doc(role, version, signed, meta) ==
    [role |-> role, version |-> version, wellformed |-> TRUE, signed |-> signed,
     len |-> 1, content |-> 1, meta |-> meta]

Malformed(role) ==
    [role |-> role, version |-> 0, wellformed |-> FALSE, signed |-> FALSE,
     len |-> 1, content |-> 1, meta |-> NoMeta]

\* MetadataPath::from_role
FromRole(role) == role

\* MetadataDescription: optional length, optional set of (algorithm, digest)
Description(length, hashes) == [length |-> length, hashes |-> hashes]

\* the digest of a content under an algorithm
Digest(alg, content) == [alg |-> alg, val |-> content]

(***************************************************************************)
(* crypto::hash_preference: the first algorithm of the fixed preference    *)
(* order that the description lists, with its digest.                      *)
(***************************************************************************)
HashPreferenceOrder == <<"sha512", "sha256">>

HashPreference(hashes) ==
    LET idx == {i \in DOMAIN HashPreferenceOrder :
                  \E h \in hashes : h.alg = HashPreferenceOrder[i]}
    IN IF idx = {}
       THEN [ok |-> FALSE, hash |-> None]
       ELSE LET first == CHOOSE i \in idx : \A j \in idx : i <= j
            IN [ok |-> TRUE,
                hash |-> Some(CHOOSE h \in hashes : h.alg = HashPreferenceOrder[first])]

(***************************************************************************)
(* Repository.  A repository holds, per role, the document it serves for   *)
(* MetadataVersion::None, and for root also the documents it serves for    *)
(* MetadataVersion::Number(i).                                             *)
(***************************************************************************)
VNone == {}

VNumber(i) == {i}

Lookup(repo, role, version) ==
    IF version = VNone
    THEN repo[role]
    ELSE IF role = "root" /\ Unwrap(version) \in DOMAIN repo.rootNum
         THEN repo.rootNum[Unwrap(version)]
         ELSE None

\* Repository::fetch_metadata
FetchMetadata(repo, role, version, max_size, hash) ==
    LET found == Lookup(repo, role, version)
    IN IF found = None
       THEN [ok |-> FALSE, err |-> "NotFound", doc |-> None]
       ELSE LET d == Unwrap(found)
            IN IF max_size # None /\ d.len > Unwrap(max_size)
               THEN [ok |-> FALSE, err |-> "Oversized", doc |-> None]
               ELSE IF hash # None /\ Digest(Unwrap(hash).alg, d.content) # Unwrap(hash)
                    THEN [ok |-> FALSE, err |-> "HashMismatch", doc |-> None]
                    ELSE [ok |-> TRUE, err |-> "", doc |-> found]

(***************************************************************************)
(* The events a call leaves in its log.                                    *)
(***************************************************************************)
FetchEv(src, role, version, max_size, hash, f) ==
    [op |-> "fetch", src |-> src, role |-> role, version |-> version,
     max |-> max_size, hash |-> hash, doc |-> f.doc,
     out |-> IF f.ok THEN "ok" ELSE f.err]

AdoptEv(role, doc, res) ==
    [op |-> "adopt", src |-> "tuf", role |-> role, version |-> VNone,
     max |-> None, hash |-> None, doc |-> Some(doc),
     out |-> IF res.ok THEN (IF res.val THEN "true" ELSE "false") ELSE res.err]

(***************************************************************************)
(* Tuf, the trust store.  Each adoption verifies the signatures, enforces  *)
(* version monotonicity (root: exactly current + 1; the others: not lower  *)
(* than current) and reports whether the candidate replaced the trusted    *)
(* document.                                                               *)
(***************************************************************************)
Trusted(doc) == [version |-> doc.version, meta |-> doc.meta]

TufNew(root_version) ==
    [root |-> [version |-> root_version, meta |-> NoMeta],
     timestamp |-> None, snapshot |-> None, targets |-> None]

\* TufUpdateRoot without the version check: any correctly signed root replaces
\* the trusted one
TufUpdateRoot_AnyVersion(t, doc) ==
    IF ~doc.wellformed
    THEN [tuf |-> t, res |-> Err("Encoding", "")]
    ELSE IF ~doc.signed \/ doc.role # "root"
    THEN [tuf |-> t, res |-> Err("VerificationFailure", "")]
    ELSE IF doc.version = t.root.version
    THEN [tuf |-> t, res |-> Ok(FALSE)]
    ELSE [tuf |-> [t EXCEPT !.root = Trusted(doc)], res |-> Ok(TRUE)]

TufUpdateRoot(t, doc) ==
    IF ~doc.wellformed
    THEN [tuf |-> t, res |-> Err("Encoding", "")]
    ELSE IF ~doc.signed \/ doc.role # "root"
    THEN [tuf |-> t, res |-> Err("VerificationFailure", "")]
    ELSE IF doc.version = t.root.version
    THEN [tuf |-> t, res |-> Ok(FALSE)]
    ELSE IF doc.version = t.root.version + 1
    THEN [tuf |-> [t EXCEPT !.root = Trusted(doc)], res |-> Ok(TRUE)]
    ELSE [tuf |-> t, res |-> Err("VerificationFailure", "")]

TufUpdateRole(t, role, doc) ==
    IF ~doc.wellformed
    THEN [tuf |-> t, res |-> Err("Encoding", "")]
    ELSE IF ~doc.signed \/ doc.role # role
    THEN [tuf |-> t, res |-> Err("VerificationFailure", "")]
    ELSE IF t[role] # None /\ doc.version < Unwrap(t[role]).version
    THEN [tuf |-> t, res |-> Err("VerificationFailure", "")]
    ELSE IF t[role] # None /\ doc.version = Unwrap(t[role]).version
    THEN [tuf |-> t, res |-> Ok(FALSE)]
    ELSE [tuf |-> [t EXCEPT ![role] = Some(Trusted(doc))], res |-> Ok(TRUE)]

TufUpdateTimestamp(t, doc) == TufUpdateRole(t, "timestamp", doc)

TufUpdateSnapshot(t, doc) == TufUpdateRole(t, "snapshot", doc)

TufUpdateTargets(t, doc) == TufUpdateRole(t, "targets", doc)

(***************************************************************************)
(* DataInterchange::deserialize of the unverified payload: a pure read of  *)
(* the declared version.                                                   *)
(***************************************************************************)
Deserialize(doc) == [ok |-> doc.wellformed, version |-> doc.version]

(***************************************************************************)
(* The stages.  Each returns the trust store it leaves, its Result<bool>   *)
(* and the log extended by the events it issued.                           *)
(***************************************************************************)
Stage(t, res, log) == [tuf |-> t, res |-> res, log |-> log]

ErrMsgGeneric == "Generic"

\* one iteration of UpdateRootIntermediates_IgnoreNotAdopted
IntermediateStep_IgnoreNotAdopted(s, repo, src, max_root_size, i) ==
    IF ~s.res.ok
    THEN s
    ELSE LET f == FetchMetadata(repo, "root", VNumber(i), max_root_size, None)
             log1 == Append(s.log, FetchEv(src, "root", VNumber(i), max_root_size, None, f))
         IN IF ~f.ok
            THEN Stage(s.tuf, Err(f.err, ""), log1)
            ELSE LET a == TufUpdateRoot(s.tuf, Unwrap(f.doc))
                     log2 == Append(log1, AdoptEv("root", Unwrap(f.doc), a.res))
                 IN IF ~a.res.ok
                    THEN Stage(a.tuf, a.res, log2)
                    ELSE Stage(a.tuf, Ok(TRUE), log2)

\* IntermediateStep with no size limit on the numbered fetch
IntermediateStep_Unbounded(s, repo, src, max_root_size, i) ==
    IF ~s.res.ok
    THEN s
    ELSE LET f == FetchMetadata(repo, "root", VNumber(i), None, None)
             log1 == Append(s.log, FetchEv(src, "root", VNumber(i), None, None, f))
         IN IF ~f.ok
            THEN Stage(s.tuf, Err(f.err, ""), log1)
            ELSE LET a == TufUpdateRoot(s.tuf, Unwrap(f.doc))
                     log2 == Append(log1, AdoptEv("root", Unwrap(f.doc), a.res))
                 IN IF ~a.res.ok
                    THEN Stage(a.tuf, a.res, log2)
                    ELSE IF ~a.res.val
                    THEN Stage(a.tuf, Err(ErrMsgGeneric, ""), log2)
                    ELSE Stage(a.tuf, Ok(TRUE), log2)

\* IntermediateStep that reports a root the store did not adopt as a
\* verification failure
IntermediateStep_NotAdoptedAsVerification(s, repo, src, max_root_size, i) ==
    IF ~s.res.ok
    THEN s
    ELSE LET f == FetchMetadata(repo, "root", VNumber(i), max_root_size, None)
             log1 == Append(s.log, FetchEv(src, "root", VNumber(i), max_root_size, None, f))
         IN IF ~f.ok
            THEN Stage(s.tuf, Err(f.err, ""), log1)
            ELSE LET a == TufUpdateRoot(s.tuf, Unwrap(f.doc))
                     log2 == Append(log1, AdoptEv("root", Unwrap(f.doc), a.res))
                 IN IF ~a.res.ok
                    THEN Stage(a.tuf, a.res, log2)
                    ELSE IF ~a.res.val
                    THEN Stage(a.tuf, Err("VerificationFailure", ""), log2)
                    ELSE Stage(a.tuf, Ok(TRUE), log2)

\* client.rs 127-136: the body of the loop for version i, entered only while
\* no earlier iteration returned
IntermediateStep(s, repo, src, max_root_size, i) ==
    IF ~s.res.ok
    THEN s
    ELSE LET f == FetchMetadata(repo, "root", VNumber(i), max_root_size, None)
             log1 == Append(s.log, FetchEv(src, "root", VNumber(i), max_root_size, None, f))
         IN IF ~f.ok
            THEN Stage(s.tuf, Err(f.err, ""), log1)
            ELSE LET a == TufUpdateRoot(s.tuf, Unwrap(f.doc))
                     log2 == Append(log1, AdoptEv("root", Unwrap(f.doc), a.res))
                 IN IF ~a.res.ok
                    THEN Stage(a.tuf, a.res, log2)
                    ELSE IF ~a.res.val
                    THEN Stage(a.tuf, Err(ErrMsgGeneric, ""), log2)
                    ELSE Stage(a.tuf, Ok(TRUE), log2)

\* client.rs 126-137: for i in (tuf.root().version() + 1)..latest_version
UpdateRootIntermediates(t, repo, src, max_root_size, first, latest_version, log) ==
    LET n == IF latest_version > first THEN latest_version - first ELSE 0
        after[k \in 0..n] ==
            IF k = 0
            THEN Stage(t, Ok(TRUE), log)
            ELSE IntermediateStep(after[k - 1], repo, src, max_root_size, first + k - 1)
    IN after[n]

\* client.rs 139-143: the latest root fetched at the start is submitted last
UpdateRootLatest(t, latest_root, log) ==
    LET a == TufUpdateRoot(t, latest_root)
        log1 == Append(log, AdoptEv("root", latest_root, a.res))
    IN IF ~a.res.ok
       THEN Stage(a.tuf, a.res, log1)
       ELSE IF ~a.res.val
       THEN Stage(a.tuf, Err(ErrMsgGeneric, ""), log1)
       ELSE Stage(a.tuf, Ok(TRUE), log1)

\* client.rs 132-139: an iteration that returned ends the stage; otherwise the
\* latest root is submitted
UpdateRootAfterLoop(s, latest_root) ==
    IF ~s.res.ok
    THEN s
    ELSE UpdateRootLatest(s.tuf, latest_root, s.log)

\* UpdateRootCompare that submits the latest root without the intermediates
UpdateRootCompare_SkipIntermediates(t, repo, src, max_root_size, latest_root, latest_version, log) ==
    IF latest_version < t.root.version
    THEN Stage(t, Err("VerificationFailure", ""), log)
    ELSE IF latest_version = t.root.version
    THEN Stage(t, Ok(FALSE), log)
    ELSE UpdateRootLatest(t, latest_root, log)

\* UpdateRootCompare without the test for a lower version
UpdateRootCompare_NoRollbackCheck(t, repo, src, max_root_size, latest_root, latest_version, log) ==
    IF latest_version = t.root.version
    THEN Stage(t, Ok(FALSE), log)
    ELSE UpdateRootAfterLoop(UpdateRootIntermediates(t, repo, src, max_root_size,
                                                     t.root.version + 1, latest_version, log),
                             latest_root)

\* UpdateRootCompare without the test for the same version
UpdateRootCompare_NoEqualCheck(t, repo, src, max_root_size, latest_root, latest_version, log) ==
    IF latest_version < t.root.version
    THEN Stage(t, Err("VerificationFailure", ""), log)
    ELSE UpdateRootAfterLoop(UpdateRootIntermediates(t, repo, src, max_root_size,
                                                     t.root.version + 1, latest_version, log),
                             latest_root)

\* client.rs 113-143: the comparison of the peeked version and what follows
UpdateRootCompare(t, repo, src, max_root_size, latest_root, latest_version, log) ==
    IF latest_version < t.root.version
    THEN Stage(t, Err("VerificationFailure", ""), log)
    ELSE IF latest_version = t.root.version
    THEN Stage(t, Ok(FALSE), log)
    ELSE UpdateRootAfterLoop(UpdateRootIntermediates(t, repo, src, max_root_size,
                                                     t.root.version + 1, latest_version, log),
                             latest_root)

\* client.rs 100-144: Client::update_root
UpdateRoot(t, repo, src, max_root_size, log) ==
    LET f == FetchMetadata(repo, "root", VNone, max_root_size, None)
        log1 == Append(log, FetchEv(src, "root", VNone, max_root_size, None, f))
    IN IF ~f.ok
       THEN Stage(t, Err(f.err, ""), log1)
       ELSE LET latest_root == Unwrap(f.doc)
                d == Deserialize(latest_root)
            IN IF ~d.ok
               THEN Stage(t, Err("Encoding", ""), log1)
               ELSE UpdateRootCompare(t, repo, src, max_root_size,
                                      latest_root, d.version, log1)

\* the adoption call that ends the timestamp, snapshot and targets stages:
\* the stage returns what the trust store returned (client.rs 161, 195, 229)
AdoptFetched(a, role, doc, log) ==
    Stage(a.tuf, a.res, Append(log, AdoptEv(role, doc, a.res)))

\* `repo.fetch_metadata(..)?` followed by the adoption
FetchedThenAdopt(t, src, role, max_size, hash, f, log) ==
    IF ~f.ok
    THEN Stage(t, Err(f.err, ""), Append(log, FetchEv(src, role, VNone, max_size, hash, f)))
    ELSE AdoptFetched(TufUpdateRole(t, role, Unwrap(f.doc)), role, Unwrap(f.doc),
                      Append(log, FetchEv(src, role, VNone, max_size, hash, f)))

\* client.rs 147-162: Client::update_timestamp
UpdateTimestamp(t, repo, src, max_timestamp_size, log) ==
    FetchedThenAdopt(t, src, "timestamp", max_timestamp_size, None,
                     FetchMetadata(repo, "timestamp", VNone, max_timestamp_size, None), log)

\* ReadDescription without the None arm: a missing trusted document is read
\* as one that bounds nothing
ReadDescription_NoMissingCheck(trusted, path, missing) ==
    IF trusted = None
    THEN [ok |-> TRUE, res |-> Ok(FALSE), d |-> Some(Description(None, None))]
    ELSE IF path \notin DOMAIN Unwrap(trusted).meta
    THEN [ok |-> FALSE, res |-> Err("VerificationFailure", ""), d |-> None]
    ELSE [ok |-> TRUE, res |-> Ok(FALSE), d |-> Some(Unwrap(trusted).meta[path])]

\* client.rs 169-182 and 203-216: the description a stage reads from the
\* trusted document above it
ReadDescription(trusted, path, missing) ==
    IF trusted = None
    THEN [ok |-> FALSE, res |-> Err("MissingMetadata", missing), d |-> None]
    ELSE IF path \notin DOMAIN Unwrap(trusted).meta
    THEN [ok |-> FALSE, res |-> Err("VerificationFailure", ""), d |-> None]
    ELSE [ok |-> TRUE, res |-> Ok(FALSE), d |-> Some(Unwrap(trusted).meta[path])]

\* client.rs 184-187 and 218-221
SelectHashes(description) ==
    IF description.hashes = None
    THEN [ok |-> TRUE, hash |-> None]
    ELSE HashPreference(Unwrap(description.hashes))

\* FetchSelected with no digest handed to the repository
FetchSelected_NoDigest(t, repo, src, role, description, h, log) ==
    IF ~h.ok
    THEN Stage(t, Err("NoSupportedHashAlgorithm", ""), log)
    ELSE FetchedThenAdopt(t, src, role, description.length, None,
                          FetchMetadata(repo, role, VNone, description.length, None), log)

\* client.rs 184-195 and 218-229: fetch bounded by the description, adopt
FetchSelected(t, repo, src, role, description, h, log) ==
    IF ~h.ok
    THEN Stage(t, Err("NoSupportedHashAlgorithm", ""), log)
    ELSE FetchedThenAdopt(t, src, role, description.length, h.hash,
                          FetchMetadata(repo, role, VNone, description.length, h.hash), log)

FetchDescribed(t, repo, src, role, d, log) ==
    IF ~d.ok
    THEN Stage(t, d.res, log)
    ELSE FetchSelected(t, repo, src, role, Unwrap(d.d), SelectHashes(Unwrap(d.d)), log)

\* UpdateSnapshot without the look at the trusted timestamp
UpdateSnapshot_Unchecked(t, repo, src, log) ==
    FetchSelected(t, repo, src, "snapshot", Description(None, None),
                  [ok |-> TRUE, hash |-> None], log)

\* client.rs 165-196: Client::update_snapshot
UpdateSnapshot(t, repo, src, log) ==
    FetchDescribed(t, repo, src, "snapshot",
                   ReadDescription(t.timestamp, FromRole("timestamp"), "timestamp"), log)

\* client.rs 199-230: Client::update_targets
UpdateTargets(t, repo, src, log) ==
    FetchDescribed(t, repo, src, "targets",
                   ReadDescription(t.snapshot, FromRole("targets"), "snapshot"), log)

(***************************************************************************)
(* Config and ConfigBuilder.                                               *)
(***************************************************************************)
DefaultMaxRootSize == 1048576

DefaultMaxTimestampSize == 32768

ConfigBuilderDefault ==
    [max_root_size |-> Some(DefaultMaxRootSize),
     max_timestamp_size |-> Some(DefaultMaxTimestampSize)]

\* ConfigBuilderMaxRootSize assigning the other field
ConfigBuilderMaxRootSize_SetsTimestampSize(b, max) == [b EXCEPT !.max_timestamp_size = max]

ConfigBuilderMaxRootSize(b, max) == [b EXCEPT !.max_root_size = max]

ConfigBuilderMaxTimestampSize(b, max) == [b EXCEPT !.max_timestamp_size = max]

\* Result<Config>: always Ok
ConfigBuilderFinish(b) ==
    [ok |-> TRUE,
     val |-> [max_root_size |-> b.max_root_size,
              max_timestamp_size |-> b.max_timestamp_size]]

(***************************************************************************)
(* The entry points.  The record of a call: the entry point, the trusted   *)
(* state before and after, the result, the log, and the result of every    *)
(* stage that ran, in the order they ran.                                  *)
(***************************************************************************)
CallRec(entry, pre, post, res, log, stages) ==
    [entry |-> entry, pre |-> pre, tuf |-> post, res |-> res, log |-> log,
     stages |-> stages]

Ran(name, s) == [stage |-> name, res |-> s.res]

\* Ok(b) => b, Err(e) => false (client.rs 51-58, 61-68, 71-78)
OrFalse(res) == IF res.ok THEN res.val ELSE FALSE

\* LocalResult that reports the root stage only
LocalResult_RootOnly(t, r, ts, sn, ta) ==
    CallRec("update_local", t, ta.tuf, Ok(r.res.val), ta.log,
            <<Ran("root", r), Ran("timestamp", ts), Ran("snapshot", sn), Ran("targets", ta)>>)

\* client.rs 81: Ok(r || ts || sn || ta)
LocalResult(t, r, ts, sn, ta) ==
    CallRec("update_local", t, ta.tuf,
            Ok(r.res.val \/ OrFalse(ts.res) \/ OrFalse(sn.res) \/ OrFalse(ta.res)),
            ta.log,
            <<Ran("root", r), Ran("timestamp", ts), Ran("snapshot", sn), Ran("targets", ta)>>)

\* client.rs 70-79
LocalAfterSnapshot(t, loc, r, ts, sn) ==
    LocalResult(t, r, ts, sn, UpdateTargets(sn.tuf, loc, "local", sn.log))

\* LocalAfterTimestamp with `?` on the timestamp stage instead of the match
LocalAfterTimestamp_Propagate(t, loc, r, ts) ==
    IF ~ts.res.ok
    THEN CallRec("update_local", t, ts.tuf, ts.res, ts.log,
                 <<Ran("root", r), Ran("timestamp", ts)>>)
    ELSE LocalAfterSnapshot(t, loc, r, ts, UpdateSnapshot(ts.tuf, loc, "local", ts.log))

\* client.rs 60-69
LocalAfterTimestamp(t, loc, r, ts) ==
    LocalAfterSnapshot(t, loc, r, ts, UpdateSnapshot(ts.tuf, loc, "local", ts.log))

\* LocalAfterRoot written like update_remote's `r? || ts? || ..`: the later
\* stages are evaluated only when the root stage returned false
LocalAfterRoot_ShortCircuit(t, loc, cfg, r) ==
    IF ~r.res.ok \/ r.res.val
    THEN CallRec("update_local", t, r.tuf, r.res, r.log, <<Ran("root", r)>>)
    ELSE LocalAfterTimestamp(t, loc, r,
             UpdateTimestamp(r.tuf, loc, "local", cfg.max_timestamp_size, r.log))

\* LocalAfterRoot with the root stage handled like the other three: its
\* error is logged and counts as false
LocalAfterRoot_SuppressRootError(t, loc, cfg, r) ==
    LocalAfterTimestamp(t, loc, r,
        UpdateTimestamp(r.tuf, loc, "local", cfg.max_timestamp_size, r.log))

\* client.rs 45-59: `?` returns the root stage's error, otherwise go on
LocalAfterRoot(t, loc, cfg, r) ==
    IF ~r.res.ok
    THEN CallRec("update_local", t, r.tuf, r.res, r.log, <<Ran("root", r)>>)
    ELSE LocalAfterTimestamp(t, loc, r,
             UpdateTimestamp(r.tuf, loc, "local", cfg.max_timestamp_size, r.log))

\* client.rs 44-82: Client::update_local
UpdateLocal(t, loc, cfg) ==
    LocalAfterRoot(t, loc, cfg, UpdateRoot(t, loc, "local", cfg.max_root_size, <<>>))

\* client.rs 87-97: Client::update_remote is `a? || b? || c? || d?`: an Err
\* returns at once, and `||` evaluates its right operand only when the left
\* one is false.
RemoteAfterTargets(t, ran, ta) ==
    CallRec("update_remote", t, ta.tuf, ta.res, ta.log, Append(ran, Ran("targets", ta)))

\* client.rs 94-95
RemoteAfterSnapshot(t, loc, ran, sn) ==
    IF ~sn.res.ok \/ sn.res.val
    THEN CallRec("update_remote", t, sn.tuf, sn.res, sn.log, Append(ran, Ran("snapshot", sn)))
    ELSE RemoteAfterTargets(t, Append(ran, Ran("snapshot", sn)),
                            UpdateTargets(sn.tuf, loc, "local", sn.log))

\* RemoteAfterTimestamp with the snapshot stage given the local repository
RemoteAfterTimestamp_SnapshotFromLocal(t, loc, rem, ran, ts) ==
    IF ~ts.res.ok \/ ts.res.val
    THEN CallRec("update_remote", t, ts.tuf, ts.res, ts.log, Append(ran, Ran("timestamp", ts)))
    ELSE RemoteAfterSnapshot(t, loc, Append(ran, Ran("timestamp", ts)),
                             UpdateSnapshot(ts.tuf, loc, "local", ts.log))

\* client.rs 90-94
RemoteAfterTimestamp(t, loc, rem, ran, ts) ==
    IF ~ts.res.ok \/ ts.res.val
    THEN CallRec("update_remote", t, ts.tuf, ts.res, ts.log, Append(ran, Ran("timestamp", ts)))
    ELSE RemoteAfterSnapshot(t, loc, Append(ran, Ran("timestamp", ts)),
                             UpdateSnapshot(ts.tuf, rem, "remote", ts.log))

\* client.rs 89-90
RemoteAfterRoot(t, loc, rem, cfg, r) ==
    IF ~r.res.ok \/ r.res.val
    THEN CallRec("update_remote", t, r.tuf, r.res, r.log, <<Ran("root", r)>>)
    ELSE RemoteAfterTimestamp(t, loc, rem, <<Ran("root", r)>>,
             UpdateTimestamp(r.tuf, rem, "remote", cfg.max_timestamp_size, r.log))

\* client.rs 87-97: Client::update_remote
UpdateRemote(t, loc, rem, cfg) ==
    RemoteAfterRoot(t, loc, rem, cfg, UpdateRoot(t, rem, "remote", cfg.max_root_size, <<>>))

NoCall(t) == CallRec("none", t, t, Ok(FALSE), <<>>, <<>>)

(***************************************************************************)
(* The content a repository can serve.                                     *)
(***************************************************************************)
RootDoc(v, signed) == Doc("root", v, signed, NoMeta)

\* the chain 1.root, 2.root, ..., n.root as its publisher signed it
HonestChain(n) == [i \in 1..n |-> Some(RootDoc(i, TRUE))]

\* the ways an untrusted repository can answer for one numbered root
Defects == {"missing", "unsigned", "replay"}

Defective(chain, k, defect) ==
    [chain EXCEPT ![k] = IF defect = "missing" THEN None
                         ELSE IF defect = "unsigned" THEN Some(RootDoc(k, FALSE))
                         ELSE Some(RootDoc(1, TRUE))]

Repo(root, rootNum, timestamp, snapshot, targets) ==
    [root |-> root, rootNum |-> rootNum, timestamp |-> timestamp,
     snapshot |-> snapshot, targets |-> targets]

NoDescription == Description(None, None)

\* a timestamp that describes the snapshot, as its publisher writes it
SnapshotOnlyMeta == [p \in {"snapshot"} |-> NoDescription]

\* a timestamp whose meta also has an entry under the timestamp's own path
WithTimestampMeta == [p \in {"snapshot", "timestamp"} |-> NoDescription]

TargetsMeta == [p \in {"targets"} |-> NoDescription]

RootLatestChoices ==
    {None, Some(Malformed("root"))}
        \cup {Some(RootDoc(v, s)) : v \in 1..MaxVersion, s \in BOOLEAN}

RootChainChoices ==
    {HonestChain(MaxVersion)}
        \cup {Defective(HonestChain(MaxVersion), k, d) : k \in 2..(MaxVersion - 1), d \in Defects}

\* the latest root of a repository that serves its publisher's chain up to v
HonestRootChoices(n) == {None} \cup {Some(RootDoc(v, TRUE)) : v \in 1..n}

StageRootChoices == HonestRootChoices(MaxStageRoot)

TimestampChoices ==
    {None} \cup {Some(Doc("timestamp", v, TRUE, m)) :
                    v \in 1..MaxMetaVersion, m \in {SnapshotOnlyMeta, WithTimestampMeta}}

SnapshotChoices ==
    {None} \cup {Some(Doc("snapshot", v, TRUE, TargetsMeta)) : v \in 1..MaxMetaVersion}

TargetsChoices ==
    {None} \cup {Some(Doc("targets", v, TRUE, NoMeta)) : v \in 1..MaxMetaVersion}

(***************************************************************************)
(* Actions.                                                                *)
(***************************************************************************)
CallUpdateLocal ==
    /\ call' = UpdateLocal(tuf, local, config)
    /\ tuf' = call'.tuf
    /\ UNCHANGED <<local, remote, config, builder>>

CallUpdateRemote ==
    /\ call' = UpdateRemote(tuf, local, remote, config)
    /\ tuf' = call'.tuf
    /\ UNCHANGED <<local, remote, config, builder>>

\* the repositories are outside the client's control: their content changes
\* between calls
PublishRemote(field, choices) ==
    \E d \in choices :
        /\ remote' = [remote EXCEPT ![field] = d]
        /\ remote' # remote
        /\ call' = NoCall(tuf)
        /\ UNCHANGED <<tuf, local, config, builder>>

PublishLocal(field, choices) ==
    \E d \in choices :
        /\ local' = [local EXCEPT ![field] = d]
        /\ local' # local
        /\ call' = NoCall(tuf)
        /\ UNCHANGED <<tuf, remote, config, builder>>

RemoteRootLatest == PublishRemote("root", RootLatestChoices)

RemoteRootChain == PublishRemote("rootNum", RootChainChoices)

LocalRootLatest == PublishLocal("root", HonestRootChoices(MaxVersion))

LocalRootChain == PublishLocal("rootNum", RootChainChoices)

RemoteStageRoot == PublishRemote("root", StageRootChoices)

RemoteTimestamp == PublishRemote("timestamp", TimestampChoices)

RemoteSnapshot == PublishRemote("snapshot", SnapshotChoices)

LocalStageRoot == PublishLocal("root", StageRootChoices)

LocalTimestamp == PublishLocal("timestamp", TimestampChoices)

LocalSnapshot == PublishLocal("snapshot", SnapshotChoices)

LocalTargets == PublishLocal("targets", TargetsChoices)

(***************************************************************************)
(* Specifications.  SpecRoot exercises the root stage of both entry points *)
(* against repositories whose numbered roots are arbitrary (the remote     *)
(* one's latest root too); SpecRemote and SpecLocal exercise the four      *)
(* stages of one entry point each.                                         *)
(***************************************************************************)
InitWith(chain) ==
    /\ tuf = TufNew(1)
    /\ local = Repo(Some(RootDoc(1, TRUE)), chain, None, None, None)
    /\ remote = Repo(Some(RootDoc(1, TRUE)), chain, None, None, None)
    /\ builder = ConfigBuilderDefault
    /\ config = ConfigBuilderFinish(builder).val
    /\ call = NoCall(tuf)

InitRoot == InitWith(HonestChain(MaxVersion))

NextRoot ==
    \/ CallUpdateLocal
    \/ CallUpdateRemote
    \/ RemoteRootLatest
    \/ RemoteRootChain
    \/ LocalRootLatest
    \/ LocalRootChain

SpecRoot == InitRoot /\ [][NextRoot]_vars

InitStage == InitWith(HonestChain(MaxStageRoot))

NextRemote ==
    \/ CallUpdateRemote
    \/ RemoteStageRoot
    \/ RemoteTimestamp
    \/ RemoteSnapshot
    \/ LocalTargets

SpecRemote == InitStage /\ [][NextRemote]_vars

NextLocal ==
    \/ CallUpdateLocal
    \/ LocalStageRoot
    \/ LocalTimestamp
    \/ LocalSnapshot
    \/ LocalTargets

SpecLocal == InitStage /\ [][NextLocal]_vars

(***************************************************************************)
(* Reading the record of the last call.                                    *)
(***************************************************************************)
IsCall == call.entry \in {"update_local", "update_remote"}

IsRootEvent(e) == e.role = "root"

RootEvents == SelectSeq(call.log, IsRootEvent)

\* the root stage fetched a latest root and read a version from it
Peeked ==
    /\ IsCall
    /\ call.log[1].out = "ok"
    /\ Unwrap(call.log[1].doc).wellformed

PeekedVersion == Unwrap(call.log[1].doc).version

TrustedBefore == call.pre.root.version

RootStageResult == call.stages[1].res

Succeeded(e) == e.out \in {"ok", "true"}

\* the fetch or the adoption of intermediate version k failed in the last call
FailedIntermediate(k) ==
    /\ Peeked
    /\ TrustedBefore < k
    /\ k < PeekedVersion
    /\ \E j \in 1..Len(RootEvents) :
          /\ RootEvents[j].op = "fetch"
          /\ RootEvents[j].version = VNumber(k)
          /\ \/ RootEvents[j].out # "ok"
             \/ j + 1 <= Len(RootEvents) /\ RootEvents[j + 1].out # "true"

(***************************************************************************)
(* C1.  Across any sequence of update_local and update_remote calls,       *)
(* successful or failing, the trusted root version never decreases: every  *)
(* step leaves it at least as high as it was.                              *)
(***************************************************************************)
C1_RootVersionNeverDecreases == [][tuf'.root.version >= tuf.root.version]_vars

\* a failing call that nevertheless moved the trusted root forward
C1_Witness ==
    /\ IsCall
    /\ ~call.res.ok
    /\ tuf.root.version > call.pre.root.version

(***************************************************************************)
(* C2.  When the peeked latest version L exceeds the trusted version C,    *)
(* the root events of the call are, in this order and cut at the first     *)
(* failure: the fetch of the latest root, then for i = C+1 .. L-1 the      *)
(* fetch of Number(i) from the same repository followed by the adoption    *)
(* attempt of exactly the document that fetch returned, then the adoption  *)
(* attempt of the document the first fetch returned.  Each event happens   *)
(* only if all before it succeeded, no version is fetched twice, and a     *)
(* successful stage issued all of them.                                    *)
(***************************************************************************)
C2_IntermediatesThenLatest ==
    (Peeked /\ PeekedVersion > TrustedBefore) =>
        LET ev == RootEvents
            n == PeekedVersion - 1 - TrustedBefore
        IN /\ ev[1].op = "fetch" /\ ev[1].version = VNone
           /\ Len(ev) <= 2 * n + 2
           /\ \A j \in 2..Len(ev) :
                /\ Succeeded(ev[j - 1])
                /\ IF j = 2 * n + 2
                   THEN ev[j].op = "adopt" /\ ev[j].doc = ev[1].doc
                   ELSE IF j % 2 = 0
                   THEN /\ ev[j].op = "fetch"
                        /\ ev[j].src = ev[1].src
                        /\ ev[j].version = VNumber(TrustedBefore + (j \div 2))
                   ELSE ev[j].op = "adopt" /\ ev[j].doc = ev[j - 1].doc
           /\ RootStageResult = Ok(TRUE) => Len(ev) = 2 * n + 2

\* a root stage that stepped through two intermediates and adopted the latest
C2_Witness ==
    /\ Peeked
    /\ PeekedVersion >= TrustedBefore + 3
    /\ RootStageResult = Ok(TRUE)
    /\ tuf.root.version = PeekedVersion

(***************************************************************************)
(* C3 as stated.  If the adoption of an intermediate version k with        *)
(* C < k < L fails, the call fails and the trusted root version is exactly *)
(* C afterwards.                                                           *)
(***************************************************************************)
C3_AllOrNothing ==
    \A k \in 1..MaxVersion :
        FailedIntermediate(k) =>
            /\ ~call.res.ok
            /\ tuf.root.version = TrustedBefore

(***************************************************************************)
(* C3 amended.  If the adoption of an intermediate version k with          *)
(* C < k < L fails, the call fails with the root stage's error, the failed *)
(* event is the last event of the call, and the trusted root version is    *)
(* exactly k - 1 afterwards: the intermediates below k stay adopted, and   *)
(* neither k nor any higher version (the latest included) is adopted.      *)
(***************************************************************************)
C3_StopsAtFailedIntermediate ==
    \A k \in 1..MaxVersion :
        FailedIntermediate(k) =>
            /\ ~call.res.ok
            /\ call.res = RootStageResult
            /\ Len(call.stages) = 1
            /\ ~Succeeded(call.log[Len(call.log)])
            /\ call.log[Len(call.log)].op = "adopt" =>
                   call.log[Len(call.log)].doc = call.log[Len(call.log) - 1].doc
            /\ call.log[Len(call.log) - (IF call.log[Len(call.log)].op = "adopt" THEN 1 ELSE 0)].version
                   = VNumber(k)
            /\ tuf.root.version = k - 1

\* the second intermediate failed after the first had been adopted
C3_Witness ==
    \E k \in 1..MaxVersion :
        /\ FailedIntermediate(k)
        /\ k = TrustedBefore + 2
        /\ tuf.root.version = TrustedBefore + 1

(***************************************************************************)
(* C4.  When the peeked latest version is lower than the trusted root      *)
(* version, the call fails with VerificationFailure, its only event is the *)
(* fetch of the latest root (no adoption attempt, no further fetch), and   *)
(* the trusted state is unchanged.                                         *)
(***************************************************************************)
C4_RollbackRejected ==
    (Peeked /\ PeekedVersion < TrustedBefore) =>
        /\ RootStageResult = Err("VerificationFailure", "")
        /\ call.res = Err("VerificationFailure", "")
        /\ Len(call.log) = 1
        /\ call.log[1].op = "fetch"
        /\ tuf = call.pre

C4_Witness ==
    /\ Peeked
    /\ PeekedVersion < TrustedBefore

(***************************************************************************)
(* C5.  When the peeked latest version equals the trusted root version,    *)
(* the root stage returns Ok(false), its only event is the one fetch of    *)
(* the latest root (the trust store's root adoption is not invoked), and   *)
(* the trusted state is unchanged: reading the version trusted nothing.    *)
(***************************************************************************)
C5_SameVersionNoOp ==
    (Peeked /\ PeekedVersion = TrustedBefore) =>
        /\ RootStageResult = Ok(FALSE)
        /\ Len(RootEvents) = 1
        /\ RootEvents[1].op = "fetch"
        /\ \A j \in 1..Len(call.log) :
              call.log[j].op = "adopt" => call.log[j].role # "root"
        /\ tuf.root = call.pre.root
        /\ tuf = call.pre

C5_Witness ==
    /\ Peeked
    /\ PeekedVersion = TrustedBefore
    /\ call.log[1].doc # Some(RootDoc(1, TRUE))

(***************************************************************************)
(* The stages of update_remote run one after the other in the order root,  *)
(* timestamp, snapshot, targets, each on the trusted state the one before  *)
(* left, up to and including the first that fails.                         *)
(***************************************************************************)
StageNames == <<"root", "timestamp", "snapshot", "targets">>

RemoteStageInOrder(i, s, loc, rem, cfg) ==
    IF i = 1 THEN UpdateRoot(s.tuf, rem, "remote", cfg.max_root_size, s.log)
    ELSE IF i = 2 THEN UpdateTimestamp(s.tuf, rem, "remote", cfg.max_timestamp_size, s.log)
    ELSE IF i = 3 THEN UpdateSnapshot(s.tuf, rem, "remote", s.log)
    ELSE UpdateTargets(s.tuf, loc, "local", s.log)

RemoteStagesInOrder(t, loc, rem, cfg) ==
    LET after[i \in 0..4] ==
            IF i = 0 THEN Stage(t, Ok(FALSE), <<>>)
            ELSE IF ~after[i - 1].res.ok THEN after[i - 1]
            ELSE RemoteStageInOrder(i, after[i - 1], loc, rem, cfg)
    IN after[4]

RanStages == [i \in 1..Len(call.stages) |-> call.stages[i].stage]

AdoptedSomething == \E j \in 1..Len(call.log) : call.log[j].op = "adopt" /\ call.log[j].out = "true"

(***************************************************************************)
(* C6.  update_remote is fail-closed: if running the stages in the order   *)
(* root, timestamp, snapshot, targets makes some stage fail, update_remote *)
(* returns the error of the first failing stage, and its fetches and       *)
(* adoption attempts are exactly those made up to that failure.            *)
(***************************************************************************)
C6_RemoteFailClosed ==
    call.entry = "update_remote" =>
        LET inOrder == RemoteStagesInOrder(call.pre, local, remote, config)
        IN ~inOrder.res.ok =>
               /\ call.res = inOrder.res
               /\ call.log = inOrder.log

(***************************************************************************)
(* C7.  An update_remote call in which no stage fails runs all four        *)
(* stages, in the order root, timestamp, snapshot, targets, whether or not *)
(* an earlier stage advanced the trusted state.                            *)
(***************************************************************************)
C7_RemoteRunsAllStages ==
    (call.entry = "update_remote" /\ \A i \in 1..Len(call.stages) : call.stages[i].res.ok) =>
        RanStages = StageNames

(***************************************************************************)
(* C8.  update_remote is idempotent on unchanged content: after a call     *)
(* that returned Ok, calling it again at once returns Ok(false) and leaves *)
(* the trusted state unchanged.                                            *)
(***************************************************************************)
C8_RemoteIdempotent ==
    (call.entry = "update_remote" /\ call.res.ok) =>
        LET again == UpdateRemote(tuf, local, remote, config)
        IN /\ again.res = Ok(FALSE)
           /\ again.tuf = tuf

(***************************************************************************)
(* C9.  update_local is idempotent on unchanged content: after a call that *)
(* returned Ok, calling it again at once returns Ok(false) and leaves the  *)
(* trusted state unchanged.                                                *)
(***************************************************************************)
C9_LocalIdempotent ==
    (call.entry = "update_local" /\ call.res.ok) =>
        LET again == UpdateLocal(tuf, local, config)
        IN /\ again.res = Ok(FALSE)
           /\ again.tuf = tuf

\* a call that advanced the root and adopted timestamp, snapshot and targets
C9_Witness ==
    /\ call.entry = "update_local"
    /\ call.res = Ok(TRUE)
    /\ tuf.root # call.pre.root
    /\ tuf.targets # call.pre.targets
    /\ UpdateLocal(tuf, local, config).res = Ok(FALSE)

(***************************************************************************)
(* C10.  When its root stage succeeds, update_local returns Ok whatever    *)
(* the timestamp, snapshot and targets stages do: all four stages run in   *)
(* order, the timestamp is fetched, a failing stage counts as false, and   *)
(* the returned boolean is the OR of the four stages' results, which is    *)
(* true exactly when some adoption attempt of the call was accepted.       *)
(***************************************************************************)
C10_LocalSuppressesLaterFailures ==
    (call.entry = "update_local" /\ RootStageResult.ok) =>
        /\ call.res.ok
        /\ RanStages = StageNames
        /\ \E j \in 1..Len(call.log) :
              call.log[j].op = "fetch" /\ call.log[j].role = "timestamp"
        /\ call.res.val = (\E i \in 1..4 : call.stages[i].res = Ok(TRUE))
        /\ call.res.val = AdoptedSomething

\* the timestamp stage failed and the snapshot stage still ran and advanced
C10_Witness ==
    /\ call.entry = "update_local"
    /\ Len(call.stages) = 4
    /\ ~call.stages[2].res.ok
    /\ call.stages[3].res = Ok(TRUE)
    /\ call.res = Ok(TRUE)

(***************************************************************************)
(* More of the record of the last call.                                    *)
(***************************************************************************)
\* the result of the named stage, if it ran
RanStage(name) == \E i \in 1..Len(call.stages) : call.stages[i].stage = name

ResultOf(name) ==
    call.stages[CHOOSE i \in 1..Len(call.stages) : call.stages[i].stage = name].res

EventsOf(op, role) ==
    {j \in 1..Len(call.log) : call.log[j].op = op /\ call.log[j].role = role}

(***************************************************************************)
(* C11.  A root-stage failure of update_local is fatal: the call returns   *)
(* the root stage's error, no other stage runs, every event of the call is *)
(* a root event, and the trusted timestamp, snapshot and targets are what  *)
(* they were before the call.                                              *)
(***************************************************************************)
C11_LocalRootFailureFatal ==
    (call.entry = "update_local" /\ ~RootStageResult.ok) =>
        /\ call.res = RootStageResult
        /\ RanStages = <<"root">>
        /\ \A j \in 1..Len(call.log) : call.log[j].role = "root"
        /\ tuf.timestamp = call.pre.timestamp
        /\ tuf.snapshot = call.pre.snapshot
        /\ tuf.targets = call.pre.targets

\* the root stage failed although the repository served a timestamp that the
\* timestamp stage would have adopted
C11_Witness ==
    /\ call.entry = "update_local"
    /\ ~RootStageResult.ok
    /\ local.timestamp # None
    /\ UpdateTimestamp(tuf, local, "local", config.max_timestamp_size, <<>>).res = Ok(TRUE)

(***************************************************************************)
(* C14.  With no trusted timestamp the snapshot stage fails with           *)
(* MissingMetadata naming the Timestamp role, and with no trusted snapshot *)
(* the targets stage fails with MissingMetadata naming the Snapshot role;  *)
(* in both cases the stage fetches nothing, submits nothing for adoption   *)
(* and leaves its role as it was.  (The timestamp stage runs before the    *)
(* snapshot stage and alone changes the trusted timestamp, so the trusted  *)
(* timestamp the snapshot stage saw is the one the call ended with; the    *)
(* same holds of the snapshot and the targets stage.)                      *)
(***************************************************************************)
C14_MissingMetadata ==
    IsCall =>
        /\ (RanStage("snapshot") /\ tuf.timestamp = None) =>
              /\ ResultOf("snapshot") = Err("MissingMetadata", "timestamp")
              /\ EventsOf("fetch", "snapshot") = {}
              /\ EventsOf("adopt", "snapshot") = {}
              /\ tuf.snapshot = call.pre.snapshot
        /\ (RanStage("targets") /\ tuf.snapshot = None) =>
              /\ ResultOf("targets") = Err("MissingMetadata", "snapshot")
              /\ EventsOf("fetch", "targets") = {}
              /\ EventsOf("adopt", "targets") = {}
              /\ tuf.targets = call.pre.targets

\* both stages ran without the trusted document above them, while the
\* repository served a snapshot and a targets document
C14_Witness ==
    /\ IsCall
    /\ RanStage("snapshot") /\ tuf.timestamp = None /\ local.snapshot # None
    /\ RanStage("targets") /\ tuf.snapshot = None /\ local.targets # None

(***************************************************************************)
(* Documents of several lengths and contents, and descriptions that bound  *)
(* them.  SpecSnapshot exercises the snapshot stage against timestamps     *)
(* whose meta describes the snapshot, the timestamp itself, or both;       *)
(* SpecTargets exercises the targets stage against snapshots whose meta    *)
(* describes the targets or nothing.                                       *)
(***************************************************************************)
SizedDoc(role, version, meta, len, content) ==
    [Doc(role, version, TRUE, meta) EXCEPT !.len = len, !.content = content]

\* <<length, content>> of the documents a repository serves
Bodies == {<<1, 1>>, <<2, 2>>, <<3, 2>>, <<2, 1>>}

\* one byte, either digest of content 1
DescShort == Description(Some(1), Some({Digest("sha256", 1), Digest("sha512", 1)}))

\* two bytes; the preferred digest is that of content 2, the other is that of
\* content 1
DescLong == Description(Some(2), Some({Digest("sha256", 1), Digest("sha512", 2)}))

\* no algorithm hash_preference knows
DescUnsupported == Description(Some(2), Some({Digest("md5", 1)}))

Descriptions == {NoDescription, DescShort, DescLong, DescUnsupported}

TimestampMetas ==
    {[p \in {"snapshot"} |-> d] : d \in Descriptions}
        \cup {[p \in {"timestamp"} |-> NoDescription]}
        \cup {[p \in {"snapshot", "timestamp"} |->
                  IF p = "snapshot" THEN d[1] ELSE d[2]] :
              d \in {<<DescShort, DescLong>>, <<DescLong, DescShort>>}}

DescribingTimestampChoices ==
    {None} \cup {Some(Doc("timestamp", v, TRUE, m)) :
                    v \in 1..MaxMetaVersion, m \in TimestampMetas}

SizedSnapshotChoices ==
    {None} \cup {Some(SizedDoc("snapshot", v, TargetsMeta, b[1], b[2])) :
                    v \in 1..MaxMetaVersion, b \in Bodies}

SnapshotMetas == {[p \in {"targets"} |-> d] : d \in Descriptions} \cup {NoMeta}

FirstTimestampChoices == {None, Some(Doc("timestamp", 1, TRUE, WithTimestampMeta))}

DescribingSnapshotChoices ==
    {None} \cup {Some(Doc("snapshot", v, TRUE, m)) :
                    v \in 1..MaxMetaVersion, m \in SnapshotMetas}

SizedTargetsChoices ==
    {None} \cup {Some(SizedDoc("targets", v, NoMeta, b[1], b[2])) :
                    v \in 1..MaxMetaVersion, b \in Bodies}

LocalDescribingTimestamp == PublishLocal("timestamp", DescribingTimestampChoices)

LocalSizedSnapshot == PublishLocal("snapshot", SizedSnapshotChoices)

LocalFirstTimestamp == PublishLocal("timestamp", FirstTimestampChoices)

LocalDescribingSnapshot == PublishLocal("snapshot", DescribingSnapshotChoices)

LocalSizedTargets == PublishLocal("targets", SizedTargetsChoices)

NextSnapshot ==
    \/ CallUpdateLocal
    \/ LocalDescribingTimestamp
    \/ LocalSizedSnapshot

SpecSnapshot == InitStage /\ [][NextSnapshot]_vars

NextTargets ==
    \/ CallUpdateLocal
    \/ LocalFirstTimestamp
    \/ LocalDescribingSnapshot
    \/ LocalSizedTargets

SpecTargets == InitStage /\ [][NextTargets]_vars

\* the bounds a stage must hand to the repository under a description
BoundedBy(e, description) ==
    /\ e.version = VNone
    /\ e.max = description.length
    /\ e.hash = SelectHashes(description).hash

FetchFailed(role) ==
    \E j \in EventsOf("fetch", role) : call.log[j].out # "ok"

(***************************************************************************)
(* C12.  The snapshot stage bounds its fetch by the length and the         *)
(* preferred digest of the description the trusted timestamp holds under   *)
(* the Snapshot path; when the trusted timestamp holds no description      *)
(* under that path the stage fails with VerificationFailure and fetches    *)
(* nothing; when the fetch fails nothing is submitted for adoption.        *)
(***************************************************************************)
C12_SnapshotBoundedByDescription ==
    (IsCall /\ RanStage("snapshot") /\ tuf.timestamp # None) =>
        /\ IF FromRole("snapshot") \in DOMAIN Unwrap(tuf.timestamp).meta
           THEN \A j \in EventsOf("fetch", "snapshot") :
                    BoundedBy(call.log[j], Unwrap(tuf.timestamp).meta[FromRole("snapshot")])
           ELSE /\ ResultOf("snapshot") = Err("VerificationFailure", "")
                /\ EventsOf("fetch", "snapshot") = {}
        /\ FetchFailed("snapshot") => EventsOf("adopt", "snapshot") = {}

(***************************************************************************)
(* C13.  The targets stage bounds its fetch by the length and the          *)
(* preferred digest of the description the trusted snapshot holds under    *)
(* the Targets path; when the trusted snapshot holds no description under  *)
(* that path the stage fails with VerificationFailure and fetches nothing; *)
(* when the fetch fails nothing is submitted for adoption and the trusted  *)
(* targets are what they were.                                             *)
(***************************************************************************)
C13_TargetsBoundedByDescription ==
    (IsCall /\ RanStage("targets") /\ tuf.snapshot # None) =>
        /\ IF FromRole("targets") \in DOMAIN Unwrap(tuf.snapshot).meta
           THEN \A j \in EventsOf("fetch", "targets") :
                    BoundedBy(call.log[j], Unwrap(tuf.snapshot).meta[FromRole("targets")])
           ELSE /\ ResultOf("targets") = Err("VerificationFailure", "")
                /\ EventsOf("fetch", "targets") = {}
        /\ FetchFailed("targets") =>
              /\ EventsOf("adopt", "targets") = {}
              /\ ~ResultOf("targets").ok
              /\ tuf.targets = call.pre.targets

\* the targets fetch was bounded by a length and a digest, the repository
\* served a document that is too long or has another digest, and the stage
\* adopted nothing
C13_Witness ==
    /\ IsCall /\ RanStage("targets") /\ tuf.snapshot # None
    /\ FromRole("targets") \in DOMAIN Unwrap(tuf.snapshot).meta
    /\ \E j \in EventsOf("fetch", "targets") :
          /\ call.log[j].max # None
          /\ call.log[j].hash = Some(Digest("sha512", 2))
          /\ call.log[j].out \in {"Oversized", "HashMismatch"}
    /\ local.targets # None

(***************************************************************************)
(* SpecBoth: both entry points on one client, against a remote and a local *)
(* repository whose roots, timestamps, snapshots and targets change        *)
(* between calls.                                                          *)
(***************************************************************************)
SelfDescribingTimestampChoices ==
    {None} \cup {Some(Doc("timestamp", v, TRUE, WithTimestampMeta)) : v \in 1..MaxMetaVersion}

FirstSnapshotChoices == {None, Some(Doc("snapshot", 1, TRUE, TargetsMeta))}

FirstTargetsChoices == {None, Some(Doc("targets", 1, TRUE, NoMeta))}

RemoteSelfDescribingTimestamp == PublishRemote("timestamp", SelfDescribingTimestampChoices)

RemoteFirstSnapshot == PublishRemote("snapshot", FirstSnapshotChoices)

LocalFirstSnapshot == PublishLocal("snapshot", FirstSnapshotChoices)

LocalFirstTargets == PublishLocal("targets", FirstTargetsChoices)

NextBoth ==
    \/ CallUpdateLocal
    \/ CallUpdateRemote
    \/ RemoteStageRoot
    \/ RemoteSelfDescribingTimestamp
    \/ RemoteFirstSnapshot
    \/ LocalStageRoot
    \/ LocalFirstTimestamp
    \/ LocalFirstSnapshot
    \/ LocalFirstTargets

SpecBoth == InitStage /\ [][NextBoth]_vars

(***************************************************************************)
(* C15.  In every state reached from the bootstrap root by calls of        *)
(* update_local and update_remote, a snapshot is trusted only if a         *)
(* timestamp is, and targets are trusted only if a snapshot is; and no     *)
(* step removes a trusted role.                                            *)
(***************************************************************************)
C15_RolePrerequisites ==
    /\ [](/\ tuf.snapshot # None => tuf.timestamp # None
          /\ tuf.targets # None => tuf.snapshot # None)
    /\ [][\A role \in {"timestamp", "snapshot", "targets"} :
              tuf[role] # None => tuf'[role] # None]_vars

\* a call has just made the targets trusted, on top of a snapshot and a
\* timestamp
C15_Witness ==
    /\ IsCall
    /\ call.pre.targets = None
    /\ tuf.targets # None /\ tuf.snapshot # None /\ tuf.timestamp # None

(***************************************************************************)
(* C16.  update_remote sends its root, timestamp and snapshot fetches to   *)
(* the remote repository and its targets fetch to the local repository;    *)
(* update_local sends every fetch to the local repository.  Each fetch     *)
(* returns what the repository it was sent to serves.                      *)
(***************************************************************************)
SourceOf(entry, role) ==
    IF entry = "update_remote" /\ role # "targets" THEN "remote" ELSE "local"

Served(e) ==
    FetchMetadata(IF e.src = "remote" THEN remote ELSE local,
                  e.role, e.version, e.max, e.hash)

C16_SourceRouting ==
    IsCall =>
        \A j \in 1..Len(call.log) :
            call.log[j].op = "fetch" =>
                /\ call.log[j].src = SourceOf(call.entry, call.log[j].role)
                /\ call.log[j].doc = Served(call.log[j]).doc

\* update_remote fetched root, timestamp and snapshot from the remote
\* repository and then targets that only the local repository serves, while
\* the local repository serves no snapshot
C16_Witness ==
    /\ call.entry = "update_remote"
    /\ RanStages = StageNames
    /\ remote.targets = None /\ local.snapshot = None
    /\ \E j \in EventsOf("fetch", "targets") : call.log[j].out = "ok"
    /\ \E j \in EventsOf("fetch", "snapshot") : call.log[j].out = "ok"

(***************************************************************************)
(* C18.  When update_local or update_remote returns Ok(b), b is true       *)
(* exactly when the trusted state after the call differs from the trusted  *)
(* state before it; Ok(false) means that all four stages ran and no role   *)
(* changed.                                                                *)
(***************************************************************************)
C18_OkReportsChange ==
    (IsCall /\ call.res.ok) =>
        /\ call.res.val <=> (tuf # call.pre)
        /\ ~call.res.val => (RanStages = StageNames /\ tuf = call.pre)

\* update_local returned Ok(true) for a call in which only a stage after the
\* root stage advanced
C18_Witness ==
    /\ call.entry = "update_local"
    /\ call.res = Ok(TRUE)
    /\ tuf.root = call.pre.root
    /\ tuf # call.pre

(***************************************************************************)
(* SpecBuilder: a ConfigBuilder is created with its defaults, its setters  *)
(* are applied in any order with any argument any number of times, and     *)
(* finish consumes it.  The record of the last builder operation carries   *)
(* the argument last given to each setter (the default where none was).    *)
(***************************************************************************)
SizeChoices ==
    {None, Some(0), Some(1), Some(DefaultMaxTimestampSize), Some(DefaultMaxRootSize)}

BuilderRec(entry, last_root, last_timestamp, res) ==
    [entry |-> entry, last_root |-> last_root, last_timestamp |-> last_timestamp,
     res |-> res]

\* Config::build()
ConfigBuild ==
    /\ builder' = ConfigBuilderDefault
    /\ call' = BuilderRec("build", Some(1024 * 1024), Some(32 * 1024), Ok(FALSE))
    /\ UNCHANGED <<tuf, local, remote, config>>

SetMaxRootSize ==
    \E max \in SizeChoices :
        /\ call.entry # "finish"
        /\ builder' = ConfigBuilderMaxRootSize(builder, max)
        /\ call' = [call EXCEPT !.entry = "max_root_size", !.last_root = max]
        /\ UNCHANGED <<tuf, local, remote, config>>

SetMaxTimestampSize ==
    \E max \in SizeChoices :
        /\ call.entry # "finish"
        /\ builder' = ConfigBuilderMaxTimestampSize(builder, max)
        /\ call' = [call EXCEPT !.entry = "max_timestamp_size", !.last_timestamp = max]
        /\ UNCHANGED <<tuf, local, remote, config>>

Finish ==
    /\ call.entry # "finish"
    /\ config' = ConfigBuilderFinish(builder).val
    /\ call' = [call EXCEPT !.entry = "finish",
                            !.res = IF ConfigBuilderFinish(builder).ok
                                    THEN Ok(TRUE) ELSE Err("Generic", "")]
    /\ UNCHANGED <<tuf, local, remote, builder>>

InitBuilder ==
    /\ tuf = TufNew(1)
    /\ local = Repo(Some(RootDoc(1, TRUE)), HonestChain(MaxStageRoot), None, None, None)
    /\ remote = local
    /\ builder = ConfigBuilderDefault
    /\ config = ConfigBuilderFinish(builder).val
    /\ call = BuilderRec("build", Some(1024 * 1024), Some(32 * 1024), Ok(FALSE))

NextBuilder ==
    \/ ConfigBuild
    \/ SetMaxRootSize
    \/ SetMaxTimestampSize
    \/ Finish

SpecBuilder == InitBuilder /\ [][NextBuilder]_vars

(***************************************************************************)
(* C17.  A fresh ConfigBuilder equals the builder on which max_root_size   *)
(* was set to Some(1024 * 1024) and max_timestamp_size to Some(32 * 1024); *)
(* a builder holds in each field the argument last given to that field's   *)
(* setter; finish succeeds and the Config carries those two values.        *)
(***************************************************************************)
C17_ConfigBuilder ==
    /\ call.entry = "build" =>
          /\ builder = [max_root_size |-> Some(1024 * 1024),
                        max_timestamp_size |-> Some(32 * 1024)]
          /\ builder = ConfigBuilderMaxTimestampSize(
                           ConfigBuilderMaxRootSize(builder, Some(1024 * 1024)),
                           Some(32 * 1024))
    /\ call.entry \in {"build", "max_root_size", "max_timestamp_size", "finish"} =>
          /\ builder.max_root_size = call.last_root
          /\ builder.max_timestamp_size = call.last_timestamp
    /\ call.entry = "finish" =>
          /\ call.res.ok
          /\ config = [max_root_size |-> call.last_root,
                       max_timestamp_size |-> call.last_timestamp]

\* finish on a builder whose two fields were both set, to values that are
\* not the defaults and differ from each other
C17_Witness ==
    /\ call.entry = "finish"
    /\ config.max_root_size = None
    /\ config.max_timestamp_size = Some(1)

(***************************************************************************)
(* SpecSizes: clients constructed with any of several Configs, against a   *)
(* local repository that serves root and timestamp documents of one and of *)
(* two bytes.                                                              *)
(***************************************************************************)
ClientSizeChoices(default) == {None, Some(1), Some(default)}

SizedRootChoices ==
    HonestRootChoices(MaxVersion) \cup {Some(SizedDoc("root", 2, NoMeta, 2, 1))}

SizedTimestampChoices ==
    {None} \cup {Some(SizedDoc("timestamp", 1, WithTimestampMeta, n, 1)) : n \in {1, 2}}

LocalSizedRoot == PublishLocal("root", SizedRootChoices)

LocalSizedTimestamp == PublishLocal("timestamp", SizedTimestampChoices)

InitSizes ==
    \E r \in ClientSizeChoices(DefaultMaxRootSize),
       ts \in ClientSizeChoices(DefaultMaxTimestampSize) :
        /\ tuf = TufNew(1)
        /\ local = Repo(Some(RootDoc(1, TRUE)), HonestChain(MaxVersion), None, None, None)
        /\ remote = local
        /\ builder = ConfigBuilderMaxTimestampSize(
                         ConfigBuilderMaxRootSize(ConfigBuilderDefault, r), ts)
        /\ config = ConfigBuilderFinish(builder).val
        /\ call = NoCall(tuf)

NextSizes ==
    \/ CallUpdateLocal
    \/ LocalSizedRoot
    \/ LocalSizedTimestamp
    \/ LocalFirstSnapshot
    \/ LocalFirstTargets

SpecSizes == InitSizes /\ [][NextSizes]_vars

(***************************************************************************)
(* C19.  Every root fetch, of the latest and of a numbered version,        *)
(* carries the configured max_root_size and no digest; every timestamp     *)
(* fetch asks for the latest version with the configured                   *)
(* max_timestamp_size and no digest; every snapshot and targets fetch asks *)
(* for the latest version.                                                 *)
(***************************************************************************)
C19_FetchParameters ==
    IsCall =>
        \A j \in 1..Len(call.log) :
            call.log[j].op = "fetch" =>
                /\ call.log[j].role = "root" =>
                      /\ call.log[j].max = config.max_root_size
                      /\ call.log[j].hash = None
                /\ call.log[j].role = "timestamp" =>
                      /\ call.log[j].version = VNone
                      /\ call.log[j].max = config.max_timestamp_size
                      /\ call.log[j].hash = None
                /\ call.log[j].role \in {"snapshot", "targets"} =>
                      call.log[j].version = VNone

\* a client configured with one-byte limits fetched a numbered root, was
\* refused a two-byte timestamp, and fetched snapshot and targets
C19_Witness ==
    /\ IsCall
    /\ config.max_root_size = Some(1) /\ config.max_timestamp_size = Some(1)
    /\ \E j \in EventsOf("fetch", "root") : call.log[j].version # VNone
    /\ \E j \in EventsOf("fetch", "timestamp") : call.log[j].out = "Oversized"
    /\ EventsOf("fetch", "snapshot") # {}
    /\ EventsOf("fetch", "targets") # {}

====
